---- MODULE Spec2Model ----
(***************************************************************************)
(* AV Scissors, src/video/video_activity.cpp: video_activity_c.            *)
(*                                                                         *)
(* The object owns two per-frame activity strips.  Its constructor sizes   *)
(* them, clears the stop flag and starts two worker threads,               *)
(* mark_video_frame_activity and mark_audio_frame_activity; its destructor *)
(* sets the stop flag and waits for both.  The model has one action per    *)
(* strip write of each worker (a loop iteration that finds no activity is  *)
(* one action; the writes of a coalescing run are one action each), so     *)
(* that every value a concurrent reader of a strip can see is a state.     *)
(*                                                                         *)
(* Unsigned 32-bit values are held by their two's-complement reading where *)
(* they can wrap (the cursor of get_start_of_active_segment): 2^32 - 1 is  *)
(* written -1.                                                             *)
(***************************************************************************)
EXTENDS Integers, Sequences, FiniteSets

(* ---------------------------------------------------------------------- *)
(* Program constants                                                       *)
(* ---------------------------------------------------------------------- *)

TIME_GRANULARITY_DIVISOR == 50

STOP_CHECK_INTERVAL == 200

DIFF_THRESHOLD == 30

(* threshold = (max - avg) * 0.001, kept exact as a division by 1000 *)
THRESHOLD_SCALE_INV == 1000

Uninitialized == "Uninitialized"
NoData == "NoData"
Inactive == "Inactive"
Active == "Active"

activity_type_e == {Uninitialized, NoData, Inactive, Active}

(* ---------------------------------------------------------------------- *)
(* Bounds of the model                                                     *)
(* ---------------------------------------------------------------------- *)

(* frame counts 1..MaxSmallFrames are all below the divisor (G = 0) *)
MaxSmallFrames == 3

(* frame counts g * TIME_GRANULARITY_DIVISOR for g in 1..MaxGranularity *)
MaxGranularity == 2

(* the long videos have STOP_CHECK_INTERVAL + MaxTail frames *)
MaxTail == 10

(* at most this many frames of a video are brighter than the rest *)
MaxBright == 2

(* an audio track has 1..MaxSamples samples *)
MaxSamples == 2

(* strips handed to get_start_of_active_segment have 1..MaxStripLen entries *)
MaxStripLen == 5

(* frames handed to frames_differ have 1..MaxPixels pixels *)
MaxPixels == 1

(* ---------------------------------------------------------------------- *)
(* State                                                                   *)
(* ---------------------------------------------------------------------- *)

VARIABLES
    numFrames,               \* videoInfo.num_frames()
    brightFrames,            \* the video: the frames that are brighter ...
    brightLevel,             \* ... and the channel value they hold
    audioSrc,                \* what extract_audio will find
    samples,                 \* the extracted WAV's samples, when valid
    videoFrameIsActive,      \* the video strip
    audioFrameIsActive,      \* the audio strip
    workerThreadsShouldStop, \* the shared stop flag
    audio,                   \* the audio_file_c pointer
    vpc, vi, vp, vSkip,      \* video worker: position, i, p, numFramesToSkip
    capPos,                  \* cv::VideoCapture: index of the next frame read
    thisFrameIdx,            \* source index of the frame held in thisFrame
    prevFrameIdx,            \* source index of the frame held in prevFrame
    apc, ai, ap, aSkip,      \* audio worker: position, i, p, numFramesToSkip
    fault,                   \* outcome of an out-of-range strip write
    vDirect, aDirect,        \* history: indices found Active by evaluation
    vAtStop,                 \* history: video i when the stop flag was set
    qIdx, qTrack,            \* get_start_of_active_segment: its arguments,
    qRet, qStatus,           \*   what it returned and how the call went
    dFrame1, dFrame2,        \* frames_differ: its arguments,
    dThreshold,
    dCalled, dRet            \*   whether it was called and what it returned

scanVars == <<videoFrameIsActive, audioFrameIsActive, workerThreadsShouldStop,
              audio, vpc, vi, vp, vSkip, capPos, thisFrameIdx, prevFrameIdx,
              apc, ai, ap, aSkip, fault, vDirect, aDirect, vAtStop>>

inputVars == <<numFrames, brightFrames, brightLevel, audioSrc, samples>>

queryVars == <<qIdx, qTrack, qRet, qStatus>>

diffVars == <<dFrame1, dFrame2, dThreshold, dCalled, dRet>>

vars == <<inputVars, scanVars, queryVars, diffVars>>

videoVars == <<videoFrameIsActive, vpc, vi, vp, vSkip, capPos, thisFrameIdx,
               prevFrameIdx, vDirect>>

audioVars == <<audioFrameIsActive, audio, apc, ai, ap, aSkip, aDirect>>

(* ---------------------------------------------------------------------- *)
(* Helpers                                                                 *)
(* ---------------------------------------------------------------------- *)

Abs(x) == IF x < 0 THEN -x ELSE x

Min(a, b) == IF a < b THEN a ELSE b

RECURSIVE SumSeq(_)
SumSeq(s) == IF s = <<>> THEN 0 ELSE Head(s) + SumSeq(Tail(s))

RECURSIVE MaxAbsSeq(_)
MaxAbsSeq(s) ==
    IF s = <<>> THEN 0
    ELSE LET m == MaxAbsSeq(Tail(s))
         IN  IF Abs(Head(s)) > m THEN Abs(Head(s)) ELSE m

(* qFill(strip, v) *)
qFill(strip, v) == [k \in DOMAIN strip |-> v]

(* ---------------------------------------------------------------------- *)
(* frames_differ                                                           *)
(* ---------------------------------------------------------------------- *)

(* cv::Mat operator- on 8-bit unsigned elements saturates at 0 *)
SaturatingSub(a, b) == IF a > b THEN a - b ELSE 0

(* A frame is its pixels in row order, a pixel its three channel values. *)
frames_differ(frame1, frame2, threshold) ==
    \E px \in DOMAIN frame1 : \E c \in 1..3 :
        Abs(SaturatingSub(frame1[px][c], frame2[px][c])) > threshold

(* ---------------------------------------------------------------------- *)
(* get_start_of_active_segment                                             *)
(* ---------------------------------------------------------------------- *)

(* closest-- on a uint: 0 wraps to 2^32 - 1, held as -1 *)
DecU32(c) == c - 1

(* closest + 1 on a uint: 2^32 - 1 (held as -1) wraps to 0 *)
IncU32(c) == c + 1

(* The loop from cursor closest.  A read of frameActivity.at(closest)     *)
(* outside the strip ends the walk with oob set; what the call then       *)
(* returns is not defined.                                                 *)
RECURSIVE SegmentWalk(_, _)
SegmentWalk(frameActivity, closest) ==
    IF closest \notin DOMAIN frameActivity
    THEN [ret |-> IncU32(closest), oob |-> TRUE]
    ELSE IF frameActivity[closest] = Active
         THEN IF DecU32(closest) = 0
              THEN [ret |-> 0, oob |-> FALSE]
              ELSE SegmentWalk(frameActivity, DecU32(closest))
         ELSE [ret |-> IncU32(closest), oob |-> FALSE]

get_start_of_active_segment(startFrameIdx, videoOrAudio) ==
    SegmentWalk(IF videoOrAudio = 0 THEN videoFrameIsActive
                                    ELSE audioFrameIsActive,
                startFrameIdx)

(* ---------------------------------------------------------------------- *)
(* The video source and the audio track                                    *)
(* ---------------------------------------------------------------------- *)

(* a one-pixel frame whose three channels hold level *)
FrameOfLevel(level) == << <<level, level, level>> >>

(* what video >> frame yields at position k; past the end, an empty Mat *)
FrameAt(k) ==
    IF k \in 0..(numFrames - 1)
    THEN FrameOfLevel(IF k \in brightFrames THEN brightLevel ELSE 0)
    ELSE <<>>

(* audio->num_samples() *)
num_samples == Len(samples)

(* audio->sample_at(offs), offs counted from 0 *)
sample_at(offs) == samples[offs + 1]

(* has_valid_audio(): audio != nullptr && audio->has_valid_audio_data() *)
has_valid_audio == (audio # "nullptr") /\ (audio = "valid")

(* ---------------------------------------------------------------------- *)
(* Shared by both scanners                                                 *)
(* ---------------------------------------------------------------------- *)

timeGranularity == numFrames \div TIME_GRANULARITY_DIVISOR

numFramesToSkip(i) ==
    IF (i + timeGranularity) > numFrames THEN numFrames - i
                                         ELSE timeGranularity

(* ((i % 200) == 0) && workerThreadsShouldStop *)
StopObserved(i) == ((i % STOP_CHECK_INTERVAL) = 0) /\ workerThreadsShouldStop

(* the end of a loop iteration whose index is i: the stop check, then i++  *)
(* and the loop test                                                       *)
NextPc(i) ==
    IF StopObserved(i) THEN "cancelled"
    ELSE IF (i + 1) < numFrames THEN "eval" ELSE "done"

NextIdx(i) == IF StopObserved(i) THEN i ELSE i + 1

(* the process runs until an out-of-range write aborts it *)
Alive == fault # "abort"

(* ---------------------------------------------------------------------- *)
(* mark_video_frame_activity                                               *)
(* ---------------------------------------------------------------------- *)

(* variant: frame 0 is marked like a frame that differs *)
FirstFrameActivity_Active == Active

(* videoFrameIsActive[0] = Inactive *)
FirstFrameActivity == Inactive

(* variant: the frame after a run is left as it was allocated *)
BaselineActivity_Unwritten == Uninitialized

(* videoFrameIsActive[i] = Inactive after a run *)
BaselineActivity == Inactive

(* the first index the loop evaluates *)
VideoFirstIdx == 1

VideoStart ==
    /\ Alive
    /\ vpc = "start"
    /\ capPos' = 1
    /\ thisFrameIdx' = 0
    /\ videoFrameIsActive' = [videoFrameIsActive EXCEPT ![0] = FirstFrameActivity]
    /\ vi' = VideoFirstIdx
    /\ vpc' = IF VideoFirstIdx < numFrames THEN "eval" ELSE "done"
    /\ UNCHANGED <<vp, vSkip, prevFrameIdx, vDirect>>
    /\ UNCHANGED <<audioVars, workerThreadsShouldStop, fault, vAtStop>>
    /\ UNCHANGED <<inputVars, queryVars, diffVars>>

(* frames_differ(thisFrame, prevFrame, 30) for the frame about to be read *)
VideoFrameActive ==
    frames_differ(FrameAt(capPos), FrameAt(thisFrameIdx), DIFF_THRESHOLD)

VideoEval ==
    /\ Alive
    /\ vpc = "eval"
    /\ prevFrameIdx' = thisFrameIdx
    /\ thisFrameIdx' = capPos
    /\ capPos' = capPos + 1
    /\ videoFrameIsActive' =
           [videoFrameIsActive EXCEPT ![vi] = IF VideoFrameActive THEN Active
                                                                  ELSE Inactive]
    /\ IF VideoFrameActive
       THEN /\ vSkip' = numFramesToSkip(vi)
            /\ vp' = 0
            /\ vi' = vi
            /\ vpc' = IF 0 < numFramesToSkip(vi) THEN "skip" ELSE "baseline"
            /\ vDirect' = vDirect \cup {vi}
       ELSE /\ vpc' = NextPc(vi)
            /\ vi' = NextIdx(vi)
            /\ UNCHANGED <<vp, vSkip, vDirect>>
    /\ UNCHANGED <<audioVars, workerThreadsShouldStop, fault, vAtStop>>
    /\ UNCHANGED <<inputVars, queryVars, diffVars>>

(* one pass of: for (p = 0; p < numFramesToSkip; (p++, i++)) *)
VideoSkip ==
    /\ Alive
    /\ vpc = "skip"
    /\ videoFrameIsActive' = [videoFrameIsActive EXCEPT ![vi] = Active]
    /\ vp' = vp + 1
    /\ vi' = vi + 1
    /\ vpc' = IF (vp + 1) < vSkip THEN "skip" ELSE "baseline"
    /\ UNCHANGED <<vSkip, capPos, thisFrameIdx, prevFrameIdx, vDirect>>
    /\ UNCHANGED <<audioVars, workerThreadsShouldStop, fault, vAtStop>>
    /\ UNCHANGED <<inputVars, queryVars, diffVars>>

(* what a write of videoFrameIsActive[i] can do: inside the strip it is   *)
(* the write; at i >= size QVector::operator[] asserts in a debug build    *)
(* and writes past the array in a release build                            *)
WriteOutcomes(i) ==
    IF i \in 0..(numFrames - 1) THEN {"ok"} ELSE {"abort", "past_end"}

(* variant: no seek, the capture reads on from where it is *)
SeekTarget_NoSeek(i) == capPos

(* video.set(CV_CAP_PROP_POS_FRAMES, i): the index of the next frame read *)
SeekTarget(i) == i

(* the baseline write, the seek, the read, and the end of the iteration *)
VideoBaseline ==
    /\ Alive
    /\ vpc = "baseline"
    /\ \E outcome \in WriteOutcomes(vi) :
          /\ videoFrameIsActive' =
                 IF outcome = "ok"
                 THEN [videoFrameIsActive EXCEPT ![vi] = BaselineActivity]
                 ELSE videoFrameIsActive
          /\ fault' = IF outcome = "ok" THEN fault ELSE outcome
          /\ vpc' = IF outcome = "abort" THEN "baseline" ELSE NextPc(vi)
          /\ vi' = IF outcome = "abort" THEN vi ELSE NextIdx(vi)
          /\ thisFrameIdx' = IF outcome = "abort" THEN thisFrameIdx
                             ELSE SeekTarget(vi)
          /\ capPos' = IF outcome = "abort" THEN capPos
                       ELSE IF SeekTarget(vi) < numFrames
                            THEN SeekTarget(vi) + 1
                            ELSE SeekTarget(vi)
    /\ UNCHANGED <<vp, vSkip, prevFrameIdx, vDirect>>
    /\ UNCHANGED <<audioVars, workerThreadsShouldStop, vAtStop>>
    /\ UNCHANGED <<inputVars, queryVars, diffVars>>

(* ---------------------------------------------------------------------- *)
(* extract_audio and mark_audio_frame_activity                             *)
(* ---------------------------------------------------------------------- *)

(* extract_audio: audio stays nullptr when FFMPEG fails, else it is the    *)
(* new audio_file_c, whose data may or may not be valid                    *)
AudioExtract ==
    /\ Alive
    /\ apc = "extract"
    /\ audio' = IF audioSrc = "extract_failed" THEN "nullptr" ELSE audioSrc
    /\ apc' = "prepare"
    /\ UNCHANGED <<audioFrameIsActive, ai, ap, aSkip, aDirect>>
    /\ UNCHANGED <<videoVars, workerThreadsShouldStop, fault, vAtStop>>
    /\ UNCHANGED <<inputVars, queryVars, diffVars>>

(* variant: a track without audio is filled as if it were silent *)
NoAudioFill_Inactive == Inactive

(* what the strip is filled with when there is no valid audio *)
NoAudioFill == NoData

(* the has_valid_audio() test, the NoData fill, and the amplitude pass *)
AudioPrepare ==
    /\ Alive
    /\ apc = "prepare"
    /\ IF ~has_valid_audio
       THEN /\ audioFrameIsActive' = qFill(audioFrameIsActive, NoAudioFill)
            /\ apc' = "done"
       ELSE /\ apc' = "eval"
            /\ UNCHANGED audioFrameIsActive
    /\ UNCHANGED <<audio, ai, ap, aSkip, aDirect>>
    /\ UNCHANGED <<videoVars, workerThreadsShouldStop, fault, vAtStop>>
    /\ UNCHANGED <<inputVars, queryVars, diffVars>>

maxAmplitude == MaxAbsSeq(samples)

sumAmplitude == SumSeq(samples)

(* variant: the sample index is rounded to the nearest integer *)
sampleOffs_Rounded(i) ==
    ((2 * num_samples * i) + numFrames) \div (2 * numFrames)

(* sampleOffs = uint((num_samples / (real)num_frames) * i) *)
sampleOffs(i) == (num_samples * i) \div numFrames

(* fabs(sample) > fabs((maxAmplitude - sum/num_samples) * 0.001), with     *)
(* both sides multiplied by 1000 * num_samples                             *)
loudSample(i) ==
    (THRESHOLD_SCALE_INV * num_samples * Abs(sample_at(sampleOffs(i))))
        > Abs((maxAmplitude * num_samples) - sumAmplitude)

AudioEval ==
    /\ Alive
    /\ apc = "eval"
    /\ audioFrameIsActive' =
           [audioFrameIsActive EXCEPT ![ai] = IF loudSample(ai) THEN Active
                                                                ELSE Inactive]
    /\ IF loudSample(ai) /\ (0 < numFramesToSkip(ai))
       THEN /\ aSkip' = numFramesToSkip(ai)
            /\ ap' = 0
            /\ ai' = ai
            /\ apc' = "skip"
       ELSE /\ apc' = NextPc(ai)
            /\ ai' = NextIdx(ai)
            /\ UNCHANGED <<ap, aSkip>>
    /\ aDirect' = IF loudSample(ai) THEN aDirect \cup {ai} ELSE aDirect
    /\ UNCHANGED audio
    /\ UNCHANGED <<videoVars, workerThreadsShouldStop, fault, vAtStop>>
    /\ UNCHANGED <<inputVars, queryVars, diffVars>>

(* variant: the run of the audio scanner is written to the video strip *)
AudioSkip_WritesVideoStrip ==
    /\ Alive
    /\ apc = "skip"
    /\ videoFrameIsActive' = [videoFrameIsActive EXCEPT ![ai] = Active]
    /\ ap' = ap + 1
    /\ IF (ap + 1) < aSkip
       THEN /\ apc' = "skip"
            /\ ai' = ai + 1
       ELSE /\ apc' = NextPc(ai + 1)
            /\ ai' = NextIdx(ai + 1)
    /\ UNCHANGED <<audioFrameIsActive, audio, aSkip, aDirect>>
    /\ UNCHANGED <<vpc, vi, vp, vSkip, capPos, thisFrameIdx, prevFrameIdx,
                   vDirect>>
    /\ UNCHANGED <<workerThreadsShouldStop, fault, vAtStop>>
    /\ UNCHANGED <<inputVars, queryVars, diffVars>>

(* one pass of: for (p = 0; p < numFramesToSkip; (p++, i++)); the pass    *)
(* that ends the run also ends the iteration                               *)
AudioSkip ==
    /\ Alive
    /\ apc = "skip"
    /\ audioFrameIsActive' = [audioFrameIsActive EXCEPT ![ai] = Active]
    /\ ap' = ap + 1
    /\ IF (ap + 1) < aSkip
       THEN /\ apc' = "skip"
            /\ ai' = ai + 1
       ELSE /\ apc' = NextPc(ai + 1)
            /\ ai' = NextIdx(ai + 1)
    /\ UNCHANGED <<audio, aSkip, aDirect>>
    /\ UNCHANGED <<videoVars, workerThreadsShouldStop, fault, vAtStop>>
    /\ UNCHANGED <<inputVars, queryVars, diffVars>>

(* ---------------------------------------------------------------------- *)
(* ~video_activity_c                                                       *)
(* ---------------------------------------------------------------------- *)

(* workerThreadsShouldStop = true; the waits that follow change nothing.  *)
(* vAtStop records the video index for videos long enough to hold a stop   *)
(* check past the first frame.                                             *)
Destroy ==
    /\ Alive
    /\ ~workerThreadsShouldStop
    /\ workerThreadsShouldStop' = TRUE
    /\ vAtStop' = IF numFrames > STOP_CHECK_INTERVAL THEN vi ELSE 0
    /\ UNCHANGED <<videoVars, audioVars, fault>>
    /\ UNCHANGED <<inputVars, queryVars, diffVars>>

(* ---------------------------------------------------------------------- *)
(* strip_build_has_finished                                                *)
(* ---------------------------------------------------------------------- *)

(* videoStripThread.isFinished(): the worker function has returned *)
videoStripThreadFinished == vpc \in {"done", "cancelled"}

(* audioStripThread.isFinished() *)
audioStripThreadFinished == apc \in {"done", "cancelled"}

(* variant: one finished worker is enough *)
strip_build_has_finished_Either ==
    videoStripThreadFinished \/ audioStripThreadFinished

(* variant: only workers that ran through all frames count *)
strip_build_has_finished_Complete == (vpc = "done") /\ (apc = "done")

strip_build_has_finished ==
    videoStripThreadFinished /\ audioStripThreadFinished

(* ---------------------------------------------------------------------- *)
(* Inputs and the state after construction                                 *)
(* ---------------------------------------------------------------------- *)

(* variant: the strip is resized but not filled *)
NewStrip_Unfilled(n) == [k \in 0..(n - 1) |-> Inactive]

(* resize(num_frames) and qFill(..., Uninitialized) *)
NewStrip(n) == [k \in 0..(n - 1) |-> Uninitialized]

(* frame counts below the divisor, and the first multiples of it *)
FrameCounts ==
    (1..MaxSmallFrames)
        \cup {g * TIME_GRANULARITY_DIVISOR : g \in 1..MaxGranularity}

(* frame counts that put a stop check inside the video *)
LongFrameCounts == {STOP_CHECK_INTERVAL + MaxTail}

(* where a video may brighten: anywhere in a short video; at the start   *)
(* and within a run's length of the end of one long enough to coalesce;   *)
(* just before and at the stop check of one long enough to hold a check   *)
BrightCandidates(n) ==
    IF n < TIME_GRANULARITY_DIVISOR THEN 0..(n - 1)
    ELSE IF n <= STOP_CHECK_INTERVAL
    THEN {k \in 1..(n - 1) :
            (k <= 2) \/ (k >= (n - (n \div TIME_GRANULARITY_DIVISOR)) - 1)}
    ELSE {STOP_CHECK_INTERVAL - 1, STOP_CHECK_INTERVAL}

VideoInputs(n) ==
    {E \in SUBSET BrightCandidates(n) : Cardinality(E) <= MaxBright}

(* 16-bit PCM sample values: silence, the smallest step, the largest peak *)
SampleValues == {0, 1, -32768}

SampleSeqs(maxLen) == UNION {[1..s -> SampleValues] : s \in 1..maxLen}

AudioKinds == {"extract_failed", "invalid", "valid"}

(* The state the constructor leaves for a valid video of a frame count in *)
(* counts whose audio is of a kind in kinds and has at most maxLen         *)
(* samples.  When the video is long enough for coalescing and the audio    *)
(* is valid, the video brightens at frame 1 or not at all and the track    *)
(* has one sample.                                                         *)
ScanInit(counts, kinds, maxLen) ==
    /\ numFrames \in counts
    /\ brightFrames \in VideoInputs(numFrames)
    /\ brightLevel \in IF brightFrames = {} THEN {DIFF_THRESHOLD + 1}
                       ELSE {DIFF_THRESHOLD, DIFF_THRESHOLD + 1}
    /\ audioSrc \in kinds
    /\ samples \in IF audioSrc = "valid" THEN SampleSeqs(maxLen)
                                         ELSE {<<>>}
    /\ (audioSrc = "valid" /\ numFrames >= TIME_GRANULARITY_DIVISOR)
           => (brightFrames \subseteq {1} /\ Len(samples) = 1)
    /\ videoFrameIsActive = NewStrip(numFrames)
    /\ audioFrameIsActive = NewStrip(numFrames)
    /\ workerThreadsShouldStop = FALSE
    /\ audio = "nullptr"
    /\ vpc = "start" /\ vi = 0 /\ vp = 0 /\ vSkip = 0
    /\ capPos = 0 /\ thisFrameIdx = -1 /\ prevFrameIdx = -1
    /\ apc = "extract" /\ ai = 0 /\ ap = 0 /\ aSkip = 0
    /\ fault = "none"
    /\ vDirect = {} /\ aDirect = {}
    /\ vAtStop = 0

NoQuery == qIdx = 0 /\ qTrack = 0 /\ qRet = 0 /\ qStatus = "none"

NoDiff ==
    /\ dFrame1 = <<>> /\ dFrame2 = <<>> /\ dThreshold = 0
    /\ dCalled = FALSE /\ dRet = FALSE

Init == ScanInit(FrameCounts, AudioKinds, MaxSamples) /\ NoQuery /\ NoDiff

Next ==
    \/ VideoStart
    \/ VideoEval
    \/ VideoSkip
    \/ VideoBaseline
    \/ AudioExtract
    \/ AudioPrepare
    \/ AudioEval
    \/ AudioSkip
    \/ Destroy

Spec == Init /\ [][Next]_vars

(* Long videos, whose audio could not be extracted. *)
InitLong ==
    ScanInit(LongFrameCounts, {"extract_failed"}, MaxSamples) /\ NoQuery /\ NoDiff

NextLong ==
    \/ VideoStart
    \/ VideoEval
    \/ VideoSkip
    \/ VideoBaseline
    \/ AudioExtract
    \/ AudioPrepare
    \/ Destroy

SpecLong == InitLong /\ [][NextLong]_vars

(* ---------------------------------------------------------------------- *)
(* Calls of get_start_of_active_segment while the strips are built         *)
(* ---------------------------------------------------------------------- *)

(* What a call whose walk read outside the strip can come to:             *)
(* QVector::at asserts in a debug build; a release build reads whatever   *)
(* lies there, and returns closest + 1 once that is not Active (0 at the   *)
(* first such read, 2^32 - 1 at the second).                               *)
OutOfRangeReturns(ret) == {ret, DecU32(ret)}

(* a caller asks for the start of the segment of an Active frame *)
Query ==
    /\ Alive
    /\ \E track \in {0, 1} : \E idx \in 0..(numFrames - 1) :
          /\ (IF track = 0 THEN videoFrameIsActive
                           ELSE audioFrameIsActive)[idx] = Active
          /\ LET r == get_start_of_active_segment(idx, track)
             IN  /\ qIdx' = idx
                 /\ qTrack' = track
                 /\ IF r.oob
                    THEN \E st \in {"read_outside_aborted",
                                    "read_outside_returned"} :
                            /\ qStatus' = st
                            /\ qRet' \in IF st = "read_outside_aborted"
                                         THEN {0}
                                         ELSE OutOfRangeReturns(r.ret)
                    ELSE /\ qStatus' = "returned"
                         /\ qRet' = r.ret
    /\ UNCHANGED <<inputVars, scanVars, diffVars>>

(* Short videos with one audio sample per frame, so that every pattern of *)
(* loud and silent frames is a track; the video brightens at frame 1 or    *)
(* not at all.                                                             *)
InitSeg ==
    /\ ScanInit(1..MaxStripLen, {"valid"}, MaxStripLen)
    /\ Len(samples) = numFrames
    /\ brightFrames \subseteq {1}
    /\ brightLevel = DIFF_THRESHOLD + 1
    /\ NoQuery /\ NoDiff

NextSeg ==
    \/ VideoStart
    \/ VideoEval
    \/ VideoBaseline
    \/ AudioExtract
    \/ AudioPrepare
    \/ AudioEval
    \/ Query

SpecSeg == InitSeg /\ [][NextSeg]_vars

(* ---------------------------------------------------------------------- *)
(* Calls of frames_differ on arbitrary frames                              *)
(* ---------------------------------------------------------------------- *)

(* channel values that differ by 0, 30, 31 and more *)
ChannelValues == {0, 30, 31, 255}

Pixels == [1..3 -> ChannelValues]

FramesOfSize(n) == [1..n -> Pixels]

DiffThresholds == {0, DIFF_THRESHOLD}

InitDiff ==
    /\ ScanInit({1}, {"extract_failed"}, MaxSamples)
    /\ brightFrames = {}
    /\ NoQuery
    /\ \E n \in 1..MaxPixels :
          /\ dFrame1 \in FramesOfSize(n)
          /\ dFrame2 \in FramesOfSize(n)
    /\ dThreshold \in DiffThresholds
    /\ dCalled = FALSE
    /\ dRet = FALSE

CallFramesDiffer ==
    /\ ~dCalled
    /\ dCalled' = TRUE
    /\ dRet' = frames_differ(dFrame1, dFrame2, dThreshold)
    /\ UNCHANGED <<dFrame1, dFrame2, dThreshold>>
    /\ UNCHANGED <<inputVars, scanVars, queryVars>>

NextDiff == CallFramesDiffer

SpecDiff == InitDiff /\ [][NextDiff]_vars

(* ---------------------------------------------------------------------- *)
(* Properties                                                              *)
(* ---------------------------------------------------------------------- *)

Written(strip) == \A k \in DOMAIN strip : strip[k] \in {Active, Inactive}

(* the frames i+1 .. min(i+G, N-1) that follow a frame i *)
FollowingRun(i) == (i + 1)..Min(i + timeGranularity, numFrames - 1)

(* C1: with G = N/50 > 0, when a scan has run to its end every frame that  *)
(* was found Active by evaluation is followed by Active frames up to       *)
(* i + G (clamped to N - 1), in the video strip and in the audio strip.    *)
C1_CoalescedRunIsActive ==
    (timeGranularity > 0) =>
        /\ (vpc = "done") =>
               \A i \in vDirect : \A j \in FollowingRun(i) :
                   videoFrameIsActive[j] = Active
        /\ (apc = "done" /\ has_valid_audio) =>
               \A i \in aDirect : \A j \in FollowingRun(i) :
                   audioFrameIsActive[j] = Active

(* the strip the last call of get_start_of_active_segment read *)
QueriedStrip == IF qTrack = 0 THEN videoFrameIsActive ELSE audioFrameIsActive

(* the first frame of the contiguous Active run that holds idx *)
RunStart(strip, idx) ==
    CHOOSE s \in 0..idx :
        /\ \A k \in s..idx : strip[k] = Active
        /\ (s = 0) \/ (strip[s - 1] # Active)

(* C2: a call of get_start_of_active_segment on an Active index whose run  *)
(* begins at a frame s >= 1 returns s.                                     *)
C2_SegmentStartIsRunStart ==
    [][(queryVars' # queryVars /\ RunStart(QueriedStrip', qIdx') >= 1)
          => (qStatus' = "returned" /\ qRet' = RunStart(QueriedStrip', qIdx'))]_vars

(* C3: a call of get_start_of_active_segment on an Active index whose run  *)
(* reaches down to frame 0 returns 0 without reading outside the strip.    *)
C3_RunToStartReturnsZero ==
    [][(queryVars' # queryVars /\ RunStart(QueriedStrip', qIdx') = 0)
          => (qStatus' = "returned" /\ qRet' = 0)]_vars

(* some channel of some pixel differs by more than t, in either direction *)
AbsDiffExceeds(f1, f2, t) ==
    \E px \in DOMAIN f1 : \E c \in 1..3 : Abs(f1[px][c] - f2[px][c]) > t

(* C4: frames_differ returns true exactly when some channel of some pixel  *)
(* differs by more than the threshold, whichever frame holds the larger    *)
(* value.                                                                  *)
C4_FramesDifferIsAbsoluteDifference ==
    dCalled => (dRet <=> AbsDiffExceeds(dFrame1, dFrame2, dThreshold))

(* C5: when the video scan has run to its end, no entry of the video strip *)
(* is Uninitialized.                                                       *)
C5_VideoStripFullyWritten ==
    (vpc = "done") =>
        \A k \in DOMAIN videoFrameIsActive :
            videoFrameIsActive[k] # Uninitialized

(* a video scan that ran to its end, unstopped, through a coalescing run *)
C5_Witness ==
    /\ vpc = "done"
    /\ ~workerThreadsShouldStop
    /\ timeGranularity > 0
    /\ vDirect # {}

(* C6: when the audio scan of a valid track has run to its end, every      *)
(* entry of the audio strip is Active or Inactive.                         *)
C6_AudioStripFullyWritten ==
    (apc = "done" /\ has_valid_audio) => Written(audioFrameIsActive)

(* an entry that has been written keeps its value in the next state *)
KeepsWritten(strip, strip2) ==
    \A k \in DOMAIN strip : (strip[k] # Uninitialized) => (strip2[k] = strip[k])

(* C7: no step changes a strip entry that holds NoData, Inactive or       *)
(* Active.                                                                 *)
C7_EntriesNeverRevert ==
    [][/\ KeepsWritten(videoFrameIsActive, videoFrameIsActive')
       /\ KeepsWritten(audioFrameIsActive, audioFrameIsActive')]_vars

(* C8: once the stop flag is set, a video scan that goes on to evaluate   *)
(* another frame is at most one check interval past the index it was at    *)
(* when the flag was set.                                                  *)
C8_StopObservedWithinInterval ==
    (workerThreadsShouldStop /\ vpc = "eval" /\ Alive)
        => (vi - vAtStop <= STOP_CHECK_INTERVAL)

(* C9: entry 0 of the video strip is never Active, and is Inactive from    *)
(* the video scan's first write on.                                        *)
C9_FirstVideoFrameInactive ==
    /\ videoFrameIsActive[0] # Active
    /\ (vpc # "start") => (videoFrameIsActive[0] = Inactive)

(* a finished video scan that found activity *)
C9_Witness ==
    /\ vpc = "done"
    /\ vDirect # {}
    /\ videoFrameIsActive[0] = Inactive

(* C10: when no valid audio is available, has_valid_audio() is false, and  *)
(* once the audio scan has returned every entry of the audio strip is      *)
(* NoData.                                                                 *)
C10_NoAudioGivesNoData ==
    (audioSrc # "valid") =>
        /\ ~has_valid_audio
        /\ (apc \in {"done", "cancelled"}) =>
               \A k \in DOMAIN audioFrameIsActive :
                   audioFrameIsActive[k] = NoData

(* the audio scan has returned for a track that was extracted but holds   *)
(* no valid data                                                           *)
C10_Witness ==
    /\ audioSrc = "invalid"
    /\ audio = "invalid"
    /\ apc = "done"
    /\ numFrames > 1

(* the positions of a worker that has not returned *)
VideoRunning == vpc \in {"start", "eval", "skip", "baseline"}

AudioRunning == apc \in {"extract", "prepare", "eval", "skip"}

(* C11: strip_build_has_finished() is false while either scanner is still *)
(* running, and true once both have returned, by reaching the end of the   *)
(* frames or by observing the stop flag.                                   *)
C11_FinishedIffBothReturned ==
    /\ (VideoRunning \/ AudioRunning) => ~strip_build_has_finished
    /\ (~VideoRunning /\ ~AudioRunning) => strip_build_has_finished

(* both scanners have returned, the audio scanner by observing the stop   *)
(* flag with frames left                                                   *)
C11_Witness ==
    /\ vpc = "done"
    /\ apc = "cancelled"
    /\ ai + 1 < numFrames
    /\ strip_build_has_finished

HasUninitialized(strip) == \E k \in DOMAIN strip : strip[k] = Uninitialized

(* C12: when a scan was ended by the stop flag and left entries            *)
(* Uninitialized, strip_build_has_finished() is false.                     *)
C12_CancelledScanReportsUnfinished ==
    (\/ (vpc = "cancelled" /\ HasUninitialized(videoFrameIsActive))
     \/ (apc = "cancelled" /\ HasUninitialized(audioFrameIsActive)))
        => ~strip_build_has_finished

(* C12, amended: a scan ended by the stop flag before its last frame       *)
(* leaves the entries after its index Uninitialized, and                   *)
(* strip_build_has_finished() is true as soon as the other worker has      *)
(* returned too.                                                           *)
C12_CancelledScanReportsFinished ==
    /\ (vpc = "cancelled" /\ vi + 1 < numFrames) =>
           /\ \A k \in (vi + 1)..(numFrames - 1) :
                  videoFrameIsActive[k] = Uninitialized
           /\ audioStripThreadFinished => strip_build_has_finished
    /\ (apc = "cancelled" /\ ai + 1 < numFrames) =>
           /\ \A k \in (ai + 1)..(numFrames - 1) :
                  audioFrameIsActive[k] = Uninitialized
           /\ videoStripThreadFinished => strip_build_has_finished

(* the video scan stopped at a check with frames left, and both workers   *)
(* have returned                                                           *)
C12_Witness ==
    /\ vpc = "cancelled"
    /\ vi + 1 < numFrames
    /\ HasUninitialized(videoFrameIsActive)
    /\ audioStripThreadFinished
    /\ strip_build_has_finished

(* C13: both strips have exactly numFrames entries in every state, and     *)
(* before either scanner has taken a step every entry is Uninitialized.    *)
C13_StripsSizedAndUninitialized ==
    /\ DOMAIN videoFrameIsActive = 0..(numFrames - 1)
    /\ DOMAIN audioFrameIsActive = 0..(numFrames - 1)
    /\ (vpc = "start" /\ apc = "extract") =>
           /\ \A k \in 0..(numFrames - 1) :
                  videoFrameIsActive[k] = Uninitialized
           /\ \A k \in 0..(numFrames - 1) :
                  audioFrameIsActive[k] = Uninitialized

(* both scanners have finished a video long enough to coalesce, and the   *)
(* strips still have numFrames entries                                     *)
C13_Witness ==
    /\ vpc = "done"
    /\ apc = "done"
    /\ numFrames >= TIME_GRANULARITY_DIVISOR
    /\ DOMAIN videoFrameIsActive = 0..(numFrames - 1)
    /\ DOMAIN audioFrameIsActive = 0..(numFrames - 1)

(* C14: with G = 0, when the video scan has run to its end every frame i   *)
(* in 1..N-1 is Active if frame i differs from frame i-1 by more than the  *)
(* threshold, and Inactive if not.                                         *)
C14_UncoalescedStripFollowsPredicate ==
    (timeGranularity = 0 /\ vpc = "done") =>
        \A i \in 1..(numFrames - 1) :
            videoFrameIsActive[i] =
                IF frames_differ(FrameAt(i), FrameAt(i - 1), DIFF_THRESHOLD)
                THEN Active
                ELSE Inactive

(* C15: the index a scanner is about to write (the evaluated frame, a      *)
(* frame of a run, the baseline after a run) is in 0..N-1.                 *)
C15_WritesInsideStrip ==
    /\ (vpc \in {"eval", "skip", "baseline"}) => (vi \in 0..(numFrames - 1))
    /\ (apc \in {"eval", "skip"}) => (ai \in 0..(numFrames - 1))

(* the variables only the video worker changes, and those only the audio  *)
(* worker changes                                                          *)
videoLocals ==
    <<vpc, vi, vp, vSkip, capPos, thisFrameIdx, prevFrameIdx, vDirect, fault>>

audioLocals == <<audio, apc, ai, ap, aSkip, aDirect>>

(* C16: a step of the video scanner leaves the audio strip unchanged, and  *)
(* a step of the audio scanner, the NoData fill included, leaves the video *)
(* strip unchanged.                                                        *)
C16_ScannersWriteOwnStrip ==
    [][/\ (videoLocals' # videoLocals) =>
              (audioFrameIsActive' = audioFrameIsActive)
       /\ (audioLocals' # audioLocals) =>
              (videoFrameIsActive' = videoFrameIsActive)]_vars

(* both scans have run to their ends on a video with activity in both     *)
(* strips, the audio scan having coalesced a run                           *)
C16_Witness ==
    /\ vpc = "done"
    /\ apc = "done"
    /\ timeGranularity > 0
    /\ vDirect # {}
    /\ aDirect # {}
    /\ \E k \in DOMAIN videoFrameIsActive :
           videoFrameIsActive[k] # audioFrameIsActive[k]

(* C17: in the video strip no Uninitialized entry has a written entry at  *)
(* a higher index.                                                         *)
C17_WrittenEntriesArePrefix ==
    \A k \in 1..(numFrames - 1) :
        (videoFrameIsActive[k] # Uninitialized)
            => (videoFrameIsActive[k - 1] # Uninitialized)

(* a video scan has returned at a stop check, leaving the entries after   *)
(* its index Uninitialized                                                 *)
C17_Witness ==
    /\ vpc = "cancelled"
    /\ vi >= STOP_CHECK_INTERVAL
    /\ videoFrameIsActive[vi] # Uninitialized
    /\ videoFrameIsActive[numFrames - 1] = Uninitialized

(* C18: when the video scanner evaluates index i, the frame it is about   *)
(* to read is frame i and the frame it holds is frame i-1.                 *)
C18_ReadPositionAligned ==
    (vpc = "eval") => (capPos = vi /\ thisFrameIdx = vi - 1)

(* an evaluation that follows a coalesced run and its seek *)
C18_Witness ==
    /\ vpc = "eval"
    /\ timeGranularity > 0
    /\ vDirect # {}
    /\ vi > timeGranularity + 1
    /\ capPos = vi

(* C19: the sample index the audio scanner reads for frame i is in         *)
(* 0..S-1.                                                                 *)
C19_SampleIndexInRange ==
    (apc = "eval") => (sampleOffs(ai) \in 0..(num_samples - 1))

(* the last frame of a video with fewer samples than frames is judged    *)
(* by the last sample                                                      *)
C19_Witness ==
    /\ apc = "eval"
    /\ ai = numFrames - 1
    /\ ai > 0
    /\ num_samples < numFrames
    /\ sampleOffs(ai) = num_samples - 1

(* the steps of each worker *)
VideoNext == VideoStart \/ VideoEval \/ VideoSkip \/ VideoBaseline

AudioNext == AudioExtract \/ AudioPrepare \/ AudioEval \/ AudioSkip

(* C20: a scan that has not returned can always take its next step, so     *)
(* that under fair scheduling it goes on until it returns.                 *)
C20_RunningScanCanStep ==
    /\ VideoRunning => ENABLED VideoNext
    /\ AudioRunning => ENABLED AudioNext

====
